---- MODULE Spec2Model ----
(***************************************************************************)
(* Model of engine/working_memory.py: the WorkingMemory learning-state     *)
(* tracker (session lifecycle, performance ledger, adaptive parameters,    *)
(* JSON persistence).                                                      *)
(*                                                                         *)
(* Conventions                                                             *)
(*  - A Python list or dict that is shared by reference lives in a heap    *)
(*    (topics_heap, metrics_heap); a session dict holds the address of its *)
(*    "topics_studied" list and of its "performance_metrics" dict, so      *)
(*    dict.copy() (a shallow copy) copies the addresses, not the contents. *)
(*  - An instant is [kind, t]: kind "datetime" for a datetime object,      *)
(*    "str" for the text json.dump(default=str) writes and json.load       *)
(*    returns, "absent" for a missing key.  t counts seconds.              *)
(*  - A float is kept exact: adaptive parameters in hundredths (1.0 is     *)
(*    100), quotients as fractions [num, den].                             *)
(***************************************************************************)
EXTENDS Integers, Sequences, FiniteSets

VARIABLES
    now,                  \* the wall clock read by datetime.now()
    current_session,      \* self.current_session
    session_history,      \* self.session_history
    performance_history,  \* self.performance_history
    adaptive_parameters,  \* self.adaptive_parameters
    topics_heap,          \* address -> contents of a "topics_studied" list
    metrics_heap,         \* address -> contents of a "performance_metrics" dict
    file,                 \* the persisted resource self.memory_file
    op,                   \* the operation that ran last
    ret,                  \* its return value
    saved,                \* whether it wrote the persisted resource
    fresh,                \* no start_study_session/record_topic_study since construction
    expected_minutes,     \* per topic: minutes on hand at construction + minutes recorded since
    perf_calls,           \* per topic: number of record_performance calls made for the learner
    calls,                \* number of calls the caller has made
    store,                \* the state of the persisted resource outside the program
    raised,               \* the exception the last call raised to its caller, or "none"
    answer,               \* the last get_recommended_break call: arguments and value
    other                 \* a second Tracker of the same memory_file, not the one called

vars == <<now, current_session, session_history, performance_history,
          adaptive_parameters, topics_heap, metrics_heap, file, op, ret,
          saved, fresh, expected_minutes, perf_calls, calls, store, raised, answer, other>>

----------------------------------------------------------------------------
(* Bounds of the model *)

\* the clock takes the values 0..MaxTime
MaxTime == 1
\* the caller makes at most MaxCalls calls (constructions after the first included)
MaxCalls == 4

Topics == {"AI", "ML"}
MinutesArgs == {30, 45}
ScoreArgs == {-50, 150}
\* update_adaptive_parameters(fatigue_factor, interest_factor, retention_rate):
\* an optional argument is <<>> for None, <<x>> for the value x (in hundredths)
UpdateArgs ==
    { << <<500>>, <<>>, <<>> >>,
      << <<>>, <<5>>, <<>> >>,
      << <<>>, <<>>, <<-100>> >>,
      << <<5>>, <<500>>, <<150>> >> }

\* every call archives at most one session; one more object for the current one
Addr == 1..(MaxCalls + 1)

----------------------------------------------------------------------------
(* Values *)

Dt(t) == [kind |-> "datetime", t |-> t]
AbsentTime == [kind |-> "absent", t |-> 0]
NoneTime == [kind |-> "None", t |-> 0]

\* json.dump(..., default=str): a datetime is written as its text; what is
\* already text is written as it is.
json_default(ts) == IF ts.kind = "datetime" THEN [kind |-> "str", t |-> ts.t] ELSE ts

\* seconds / 3600
Hours(seconds) == [num |-> seconds, den |-> 3600]
AbsentDuration == [num |-> 0, den |-> 0]

\* the dict {} and the value None, in the shape of a session
EmptyDict ==
    [start_time |-> AbsentTime, end_time |-> AbsentTime, duration |-> AbsentDuration,
     topics_studied |-> 0, performance_metrics |-> 0]
None ==
    [start_time |-> NoneTime, end_time |-> AbsentTime, duration |-> AbsentDuration,
     topics_studied |-> 0, performance_metrics |-> 0]

\* {"start_time": datetime.now(), "topics_studied": [], "performance_metrics": {}}
NewSession(t, a) ==
    [start_time |-> Dt(t), end_time |-> AbsentTime, duration |-> AbsentDuration,
     topics_studied |-> a, performance_metrics |-> a]

EmptyMetrics == [tp \in Topics |-> <<>>]
EmptyLedger == [tp \in Topics |-> <<>>]

default_fatigue_factor == 100
default_interest_factor == 100
default_retention_rate == 80
DefaultParameters ==
    [fatigue_factor |-> default_fatigue_factor,
     interest_factor |-> default_interest_factor,
     retention_rate |-> default_retention_rate]

\* the addresses the archived sessions hold
Referenced(sh) == {sh[i].topics_studied : i \in DOMAIN sh}

\* a new list/dict object: an address no archived session holds
FreshAddr(sh) ==
    CHOOSE a \in Addr :
        /\ a \notin Referenced(sh)
        /\ \A b \in Addr : b \notin Referenced(sh) => a <= b

\* an object nothing refers to any more is reclaimed
Reclaim(heap, a, sh, empty) ==
    IF a \in Addr /\ a \notin Referenced(sh) THEN [heap EXCEPT ![a] = empty] ELSE heap

----------------------------------------------------------------------------
(* Persistence *)

SerializeEntries(s) ==
    [i \in 1..Len(s) |-> [s[i] EXCEPT !.timestamp = json_default(s[i].timestamp)]]

SerializeSession(s, th, mh) ==
    [start_time |-> json_default(s.start_time),
     end_time |-> json_default(s.end_time),
     duration |-> s.duration,
     topics_studied |-> SerializeEntries(th[s.topics_studied]),
     performance_metrics |->
        [tp \in Topics |-> SerializeEntries(mh[s.performance_metrics][tp])]]

\* the document save_memory writes
Snapshot(sh, ph, ap, th, mh) ==
    [exists |-> TRUE,
     session_history |-> [i \in 1..Len(sh) |-> SerializeSession(sh[i], th, mh)],
     performance_history |-> [tp \in Topics |-> SerializeEntries(ph[tp])],
     adaptive_parameters |-> ap]

\* store.content: what the resource holds when it exists: "document" (what
\* save_memory wrote, the value of file), "unparseable" (not JSON), "undecodable"
\* (not UTF-8), "not_a_mapping" (JSON whose top-level value is no object),
\* "no_keys" (the JSON object {}).
\* store.fault: "none", "open_fails" (open() raises an OSError), "makedirs_fails"
\* (os.makedirs raises an OSError: the directory cannot be created, or
\* memory_file names no directory).
HealthyStore == [content |-> "document", fault |-> "none"]
DamagedContents == {"unparseable", "undecodable", "not_a_mapping", "no_keys"}
Faults == {"none", "open_fails", "makedirs_fails"}

\* save_memory, line 49: os.makedirs is outside the try and its error propagates
SaveRaises(st) == st.fault = "makedirs_fails"
\* save_memory, lines 58-62: the write happens unless open() fails (caught)
SaveWrites(st) == st.fault = "none"
\* the write left out
FileAfterSave_NotWritten(st, f, snapshot) == f

\* a save that keeps the records of the file that the snapshot does not hold
FileAfterSave_Merging(st, f, snapshot) ==
    IF ~SaveWrites(st) THEN f
    ELSE [snapshot EXCEPT !.performance_history =
            [tp \in Topics |->
               LET mine == snapshot.performance_history[tp]
                   Missing(r) == \A i \in DOMAIN mine : mine[i] # r
               IN  SelectSeq(f.performance_history[tp], Missing) \o mine]]

FileAfterSave(st, f, snapshot) == IF SaveWrites(st) THEN snapshot ELSE f
StoreAfterSave(st) == IF SaveWrites(st) THEN [st EXCEPT !.content = "document"] ELSE st
RaisedBySave(st) == IF SaveRaises(st) THEN "OSError" ELSE "none"

\* _load_memory, lines 36-44: the load reaches lines 40-42 with the document
LoadReadsDocument(st, f) ==
    f.exists /\ st.fault # "open_fails" /\ st.content = "document"
\* _load_memory: errors other than JSONDecodeError and IOError propagate
RaisedByLoad(st, f) ==
    IF ~f.exists \/ st.fault = "open_fails" THEN "none"
    ELSE IF st.content = "undecodable" THEN "UnicodeDecodeError"
    ELSE IF st.content = "not_a_mapping" THEN "AttributeError"
    ELSE "none"

NoAnswer == [query |-> "none", study_duration |-> 0, fatigue_factor |-> 0, value |-> 0]

NoFile ==
    [exists |-> FALSE, session_history |-> <<>>,
     performance_history |-> EmptyLedger, adaptive_parameters |-> DefaultParameters]

\* the in-memory session json.load builds from the i-th persisted session:
\* its list and dict are new objects, at address i
LoadedSession(fs, i) ==
    [start_time |-> fs.start_time, end_time |-> fs.end_time, duration |-> fs.duration,
     topics_studied |-> i, performance_metrics |-> i]

----------------------------------------------------------------------------
(* Queries *)

RECURSIVE SumMinutes(_, _)
SumMinutes(entries, topic) ==
    IF entries = <<>> THEN 0
    ELSE (IF Head(entries).topic = topic THEN Head(entries).duration_minutes ELSE 0)
         + SumMinutes(Tail(entries), topic)

RECURSIVE HistoryMinutes(_, _, _)
HistoryMinutes(sh, th, topic) ==
    IF sh = <<>> THEN 0
    ELSE SumMinutes(th[Head(sh).topics_studied], topic) + HistoryMinutes(Tail(sh), th, topic)

total_minutes(sh, cs, th, topic) ==
    HistoryMinutes(sh, th, topic)
    + (IF cs = EmptyDict THEN 0 ELSE SumMinutes(th[cs.topics_studied], topic))

\* total_minutes / 60
get_study_time_for_topic(topic) ==
    [num |-> total_minutes(session_history, current_session, topics_heap, topic), den |-> 60]

\* sorted(records, key=lambda x: x["timestamp"]): a stable sort
RECURSIVE InsertByTimestamp(_, _)
InsertByTimestamp(sorted, rec) ==
    IF sorted = <<>> THEN <<rec>>
    ELSE IF rec.timestamp.t < sorted[Len(sorted)].timestamp.t
         THEN Append(InsertByTimestamp(SubSeq(sorted, 1, Len(sorted) - 1), rec),
                     sorted[Len(sorted)])
         ELSE Append(sorted, rec)

RECURSIVE SortedByTimestamp(_)
SortedByTimestamp(records) ==
    IF records = <<>> THEN <<>>
    ELSE InsertByTimestamp(SortedByTimestamp(SubSeq(records, 1, Len(records) - 1)),
                           records[Len(records)])

\* "<" between a datetime and a str raises TypeError; a sort of a list holding
\* both kinds of timestamp makes that comparison
ComparesAcrossKinds(records) ==
    \E i, j \in DOMAIN records : records[i].timestamp.kind # records[j].timestamp.kind

\* the result of a query: a value, or an exception raised
Returned(v) == [raised |-> FALSE, value |-> v]
Raised(v) == [raised |-> TRUE, value |-> v]

get_performance_trend(ph, topic_name) ==
    IF ph[topic_name] = <<>> THEN Returned(<<>>)
    ELSE IF ComparesAcrossKinds(ph[topic_name]) THEN Raised(<<>>)
    ELSE Returned(SortedByTimestamp(ph[topic_name]))

RECURSIVE WeightedSum(_, _)
WeightedSum(trend, n) ==
    IF n = 0 THEN 0 ELSE trend[n].score * n + WeightedSum(trend, n - 1)

RECURSIVE WeightSum(_)
WeightSum(n) == IF n = 0 THEN 0 ELSE n + WeightSum(n - 1)

\* min(1.0, (weighted_sum / weight_sum) / 100), as a fraction
MasteryOf(trend) ==
    LET weighted_sum == WeightedSum(trend, Len(trend))
        weight_sum == WeightSum(Len(trend))
    IN  IF weighted_sum > weight_sum * 100
        THEN [num |-> 1, den |-> 1]
        ELSE [num |-> weighted_sum, den |-> weight_sum * 100]

estimate_topic_mastery(ph, topic_name) ==
    IF ph[topic_name] = <<>> THEN Returned([num |-> 0, den |-> 1])
    ELSE LET trend == get_performance_trend(ph, topic_name)
         IN  IF trend.raised THEN Raised([num |-> 0, den |-> 1])
             ELSE Returned(MasteryOf(trend.value))

----------------------------------------------------------------------------
(* State after WorkingMemory(student_id) with no persisted resource *)

\* the in-memory state of a Tracker right after __init__ found no file
FreshInstance ==
    [constructed |-> TRUE,
     current_session |-> NewSession(0, 1),
     session_history |-> <<>>,
     performance_history |-> EmptyLedger,
     adaptive_parameters |-> DefaultParameters,
     topics_heap |-> [a \in Addr |-> <<>>],
     metrics_heap |-> [a \in Addr |-> EmptyMetrics],
     fresh |-> TRUE,
     expected_minutes |-> [tp \in Topics |-> 0]]

\* no second Tracker
NoInstance == [FreshInstance EXCEPT !.constructed = FALSE]

InitTracker ==
    /\ now = 0
    /\ current_session = NewSession(now, 1)
    /\ session_history = <<>>
    /\ performance_history = EmptyLedger
    /\ adaptive_parameters = DefaultParameters
    /\ topics_heap = [a \in Addr |-> <<>>]
    /\ metrics_heap = [a \in Addr |-> EmptyMetrics]
    /\ file = NoFile
    /\ op = "__init__"
    /\ ret = None
    /\ saved = FALSE
    /\ fresh = TRUE
    /\ expected_minutes = [tp \in Topics |-> 0]
    /\ perf_calls = [tp \in Topics |-> 0]
    /\ calls = 0
    /\ store = HealthyStore
    /\ raised = "none"
    /\ answer = NoAnswer

Init == InitTracker /\ other = NoInstance

----------------------------------------------------------------------------
(* Operations *)

\* time passes between two calls
Tick ==
    /\ now < MaxTime
    /\ now' = now + 1
    /\ op' = "tick" /\ ret' = None /\ saved' = FALSE /\ raised' = "none"
    /\ UNCHANGED <<current_session, session_history, performance_history,
                   adaptive_parameters, topics_heap, metrics_heap, file, fresh,
                   expected_minutes, perf_calls, calls, store, answer, other>>

\* one more call by the caller, on this Tracker: the other one is not touched
Called == calls < MaxCalls /\ calls' = calls + 1 /\ other' = other

\* "if not self.current_session": a dict is falsy exactly when it is {}
not_current_session(cs) == cs = EmptyDict

\* the session archived as it is, without the two stores
EndedSession_NotStamped(cs, t) == cs

\* end_study_session, lines 81-84: the dict current_session after the two stores
EndedSession(cs, t) ==
    [cs EXCEPT !.end_time = Dt(t), !.duration = Hours(t - cs.start_time.t)]

\* the append forgotten
HistoryAfterEnd_NoAppend(sh, cs, t) == sh

\* end_study_session, lines 86-87: session_history after the append of the
\* shallow copy (the copy holds the addresses of the same list and dict)
HistoryAfterEnd(sh, cs, t) == Append(sh, EndedSession(cs, t))

end_study_session ==
    /\ Called
    /\ IF not_current_session(current_session)
       THEN /\ ret' = EmptyDict
            /\ saved' = FALSE
            /\ raised' = "none"
            /\ UNCHANGED <<current_session, session_history, file, store>>
       ELSE /\ current_session' = EndedSession(current_session, now)
            /\ session_history' = HistoryAfterEnd(session_history, current_session, now)
            /\ file' = FileAfterSave(store, file,
                          Snapshot(session_history', performance_history,
                                   adaptive_parameters, topics_heap, metrics_heap))
            /\ store' = StoreAfterSave(store)
            /\ saved' = SaveWrites(store)
            /\ raised' = RaisedBySave(store)
            /\ ret' = IF SaveRaises(store) THEN None
                      ELSE EndedSession(current_session, now)
    /\ op' = "end_study_session"
    /\ UNCHANGED <<now, performance_history, adaptive_parameters, topics_heap,
                   metrics_heap, fresh, expected_minutes, perf_calls, answer>>

\* start_study_session, line 67: the previous session is archived first
ArchivesPrevious(cs, th) ==
    ~not_current_session(cs) /\ Len(th[cs.topics_studied]) > 0

start_study_session ==
    LET archive == ArchivesPrevious(current_session, topics_heap)
        sh1 == IF archive
               THEN HistoryAfterEnd(session_history, current_session, now)
               ELSE session_history
        old == current_session.topics_studied
        a == FreshAddr(sh1)
        \* the end_study_session of line 68 raised: line 70 is not reached
        stopped == archive /\ SaveRaises(store)
    IN  /\ Called
        /\ session_history' = sh1
        /\ file' = IF archive
                   THEN FileAfterSave(store, file,
                          Snapshot(sh1, performance_history, adaptive_parameters,
                                   topics_heap, metrics_heap))
                   ELSE file
        /\ store' = IF archive THEN StoreAfterSave(store) ELSE store
        /\ saved' = (archive /\ SaveWrites(store))
        /\ raised' = IF archive THEN RaisedBySave(store) ELSE "none"
        /\ current_session' = IF stopped THEN EndedSession(current_session, now)
                              ELSE NewSession(now, a)
        /\ topics_heap' =
              IF stopped THEN topics_heap
              ELSE [Reclaim(topics_heap, old, sh1, <<>>) EXCEPT ![a] = <<>>]
        /\ metrics_heap' =
              IF stopped THEN metrics_heap
              ELSE [Reclaim(metrics_heap, old, sh1, EmptyMetrics)
                      EXCEPT ![a] = EmptyMetrics]
        /\ op' = "start_study_session"
        /\ ret' = None
        /\ fresh' = FALSE
        /\ UNCHANGED <<now, performance_history, adaptive_parameters,
                       expected_minutes, perf_calls, answer>>

\* record_topic_study, lines 100-101: the session the entry goes to
SessionForEntry(cs, sh, t) ==
    IF not_current_session(cs) THEN NewSession(t, FreshAddr(sh)) ELSE cs

record_topic_study(topic_name, duration_minutes) ==
    LET cs1 == SessionForEntry(current_session, session_history, now)
        a == cs1.topics_studied
        entry == [topic |-> topic_name, duration_minutes |-> duration_minutes,
                  timestamp |-> Dt(now)]
    IN  /\ Called
        /\ current_session' = cs1
        /\ topics_heap' = [topics_heap EXCEPT ![a] = Append(@, entry)]
        /\ op' = "record_topic_study"
        /\ ret' = None
        /\ saved' = FALSE
        /\ raised' = "none"
        /\ fresh' = FALSE
        /\ expected_minutes' =
              [expected_minutes EXCEPT ![topic_name] = @ + duration_minutes]
        /\ UNCHANGED <<now, session_history, performance_history,
                       adaptive_parameters, metrics_heap, file, perf_calls,
                       store, answer>>

\* the record kept out of the session
Mirrored_NotMirrored(mh, a, topic_name, rec) == mh

\* record_performance, lines 126-132: the record is also appended to
\* current_session["performance_metrics"][topic_name]
Mirrored(mh, a, topic_name, rec) == [mh EXCEPT ![a][topic_name] = Append(@, rec)]

record_performance(topic_name, score) ==
    LET rec == [score |-> score, timestamp |-> Dt(now)]
        a == current_session.performance_metrics
    IN  /\ Called
        /\ performance_history' =
              [performance_history EXCEPT ![topic_name] = Append(@, rec)]
        /\ metrics_heap' = Mirrored(metrics_heap, a, topic_name, rec)
        /\ file' = FileAfterSave(store, file,
                      Snapshot(session_history, performance_history',
                               adaptive_parameters, topics_heap, metrics_heap'))
        /\ store' = StoreAfterSave(store)
        /\ saved' = SaveWrites(store)
        /\ raised' = RaisedBySave(store)
        /\ op' = "record_performance"
        /\ ret' = None
        /\ perf_calls' = [perf_calls EXCEPT ![topic_name] = @ + 1]
        /\ UNCHANGED <<now, current_session, session_history, adaptive_parameters,
                       topics_heap, fresh, expected_minutes, answer>>

Min(a, b) == IF b < a THEN b ELSE a
Max(a, b) == IF b > a THEN b ELSE a

fatigue_min == 10
fatigue_max == 200
interest_min == 10
interest_max == 200
retention_min == 0
retention_max == 100

\* the upper bound forgotten
Clamp_NoUpperBound(lo, hi, x) == Max(lo, x)

\* max(lo, min(hi, x))
Clamp(lo, hi, x) == Max(lo, Min(hi, x))

\* an absent argument resetting the parameter to the bottom of its range
Updated_AbsentResets(old, arg, lo, hi) == IF arg = <<>> THEN lo ELSE Clamp(lo, hi, arg[1])

\* one "if arg is not None: self.adaptive_parameters[key] = max(lo, min(hi, arg))"
Updated(old, arg, lo, hi) == IF arg = <<>> THEN old ELSE Clamp(lo, hi, arg[1])

update_adaptive_parameters(fatigue_factor, interest_factor, retention_rate) ==
    /\ Called
    /\ adaptive_parameters' =
          [fatigue_factor |->
              Updated(adaptive_parameters.fatigue_factor, fatigue_factor,
                      fatigue_min, fatigue_max),
           interest_factor |->
              Updated(adaptive_parameters.interest_factor, interest_factor,
                      interest_min, interest_max),
           retention_rate |->
              Updated(adaptive_parameters.retention_rate, retention_rate,
                      retention_min, retention_max)]
    /\ file' = FileAfterSave(store, file,
                  Snapshot(session_history, performance_history,
                           adaptive_parameters', topics_heap, metrics_heap))
    /\ store' = StoreAfterSave(store)
    /\ saved' = SaveWrites(store)
    /\ raised' = RaisedBySave(store)
    /\ op' = "update_adaptive_parameters"
    /\ ret' = None
    /\ UNCHANGED <<now, current_session, session_history, performance_history,
                   topics_heap, metrics_heap, fresh, expected_minutes, perf_calls,
                   answer>>

\* an explicit flush by the caller (main.py line 94, ui/app.py lines 147, 272)
save_memory ==
    /\ Called
    /\ file' = FileAfterSave(store, file,
                  Snapshot(session_history, performance_history,
                           adaptive_parameters, topics_heap, metrics_heap))
    /\ store' = StoreAfterSave(store)
    /\ saved' = SaveWrites(store)
    /\ raised' = RaisedBySave(store)
    /\ op' = "save_memory"
    /\ ret' = None
    /\ UNCHANGED <<now, current_session, session_history, performance_history,
                   adaptive_parameters, topics_heap, metrics_heap, fresh,
                   expected_minutes, perf_calls, answer>>

\* _load_memory: what the three attributes are after the load
LoadedHistory(f) ==
    IF f.exists
    THEN [i \in 1..Len(f.session_history) |-> LoadedSession(f.session_history[i], i)]
    ELSE <<>>
LoadedLedger(f) == IF f.exists THEN f.performance_history ELSE EmptyLedger
LoadedParameters(f) == IF f.exists THEN f.adaptive_parameters ELSE DefaultParameters

\* what _load_memory has to read: the document, or nothing (no resource, a
\* caught error, or an object without the keys: the values of __init__ stay)
Readable(st, f) == IF LoadReadsDocument(st, f) THEN f ELSE NoFile

\* WorkingMemory(student_id) for the same student: a new instance replaces the
\* old one (ui/app.py line 286, or the next run of the program)
\* When __init__ raises, no instance is bound: the caller is left with the
\* instance it had.
Construct ==
    LET doc == Readable(store, file)
        sh1 == LoadedHistory(doc)
        th1 == [a \in Addr |->
                  IF a \in DOMAIN sh1 THEN doc.session_history[a].topics_studied
                  ELSE <<>>]
        mh1 == [a \in Addr |->
                  IF a \in DOMAIN sh1 THEN doc.session_history[a].performance_metrics
                  ELSE EmptyMetrics]
        cs1 == NewSession(now, FreshAddr(sh1))
    IN  /\ Called
        /\ raised' = RaisedByLoad(store, file)
        /\ IF raised' # "none"
           THEN UNCHANGED <<session_history, performance_history,
                            adaptive_parameters, topics_heap, metrics_heap,
                            current_session, fresh, expected_minutes>>
           ELSE /\ session_history' = sh1
                /\ performance_history' = LoadedLedger(doc)
                /\ adaptive_parameters' = LoadedParameters(doc)
                /\ topics_heap' = th1
                /\ metrics_heap' = mh1
                /\ current_session' = cs1
                /\ fresh' = TRUE
                /\ expected_minutes' =
                      [tp \in Topics |-> total_minutes(sh1, cs1, th1, tp)]
        /\ op' = "__init__"
        /\ ret' = None
        /\ saved' = FALSE
        /\ UNCHANGED <<now, file, perf_calls, store, answer>>

Next ==
    \/ Tick
    \/ Construct
    \/ start_study_session
    \/ end_study_session
    \/ \E tp \in Topics, m \in MinutesArgs : record_topic_study(tp, m)
    \/ \E tp \in Topics, s \in ScoreArgs : record_performance(tp, s)
    \/ \E args \in UpdateArgs :
          update_adaptive_parameters(args[1], args[2], args[3])
    \/ save_memory

Spec == Init /\ [][Next]_vars

----------------------------------------------------------------------------
(* Properties *)

\* an archived session with its list and dict read through the heap
SessionValue(sess, th, mh) ==
    [start_time |-> sess.start_time, end_time |-> sess.end_time,
     duration |-> sess.duration,
     topics_studied |-> th[sess.topics_studied],
     performance_metrics |-> mh[sess.performance_metrics]]

HistoryValue ==
    [i \in 1..Len(session_history) |->
        SessionValue(session_history[i], topics_heap, metrics_heap)]

\* C1 (as claimed): on a Tracker on which neither start_study_session nor
\* record_topic_study has been called, end_study_session returns the empty
\* result, appends nothing to session_history and does not save.
C1_FreshEndReturnsEmpty ==
    [][(fresh /\ op' = "end_study_session")
         => (ret' = EmptyDict /\ session_history' = session_history /\ ~saved')]_vars

\* C1 (amended): on such a Tracker end_study_session archives the session
\* created at construction: it returns that session with end_time and duration
\* set and no topic entry, appends exactly it to session_history, and saves.
C1_FreshEndArchivesInitialSession ==
    [][(fresh /\ op' = "end_study_session")
         => /\ ret' # EmptyDict
            /\ ret'.start_time = current_session.start_time
            /\ ret'.end_time = Dt(now)
            /\ ret'.duration = Hours(now - current_session.start_time.t)
            /\ topics_heap'[ret'.topics_studied] = <<>>
            /\ session_history' = Append(session_history, ret')
            /\ saved'
            /\ file'.exists
            /\ Len(file'.session_history) = Len(session_history) + 1]_vars

C1_Witness ==
    /\ fresh
    /\ op = "end_study_session"
    /\ ret # EmptyDict
    /\ Len(session_history) = 1
    /\ session_history[1] = ret

\* C2: a session in session_history keeps its start_time, end_time, duration,
\* topics_studied and performance_metrics over every later call on the Tracker.
C2_ArchivedSessionsImmutable ==
    [][op' # "__init__"
         => \A i \in DOMAIN session_history :
               /\ i \in DOMAIN session_history'
               /\ SessionValue(session_history'[i], topics_heap', metrics_heap')
                    = SessionValue(session_history[i], topics_heap, metrics_heap)]_vars

\* C3: an end_study_session that directly follows an end_study_session returns
\* the empty result and appends nothing to session_history.
C3_SecondEndIsEmpty ==
    [][(op = "end_study_session" /\ op' = "end_study_session")
         => (ret' = EmptyDict /\ session_history' = session_history)]_vars

\* C4: a record_topic_study that directly follows an end_study_session starts a
\* new session (start_time now, not ended) whose topics_studied holds the new
\* entry alone, and leaves the topics of every archived session as they were.
C4_RecordAfterEndStartsNewSession ==
    [][(op = "end_study_session" /\ op' = "record_topic_study")
         => /\ current_session'.start_time = Dt(now)
            /\ current_session'.end_time = AbsentTime
            /\ Len(topics_heap'[current_session'.topics_studied]) = 1
            /\ \A i \in DOMAIN session_history :
                  topics_heap'[session_history[i].topics_studied]
                    = topics_heap[session_history[i].topics_studied]]_vars

\* the sessions that hold the list at address a: the archived ones, and the
\* current one while it has not been ended
ArchivedOwners(a) == {i \in DOMAIN session_history : session_history[i].topics_studied = a}
ActiveOwners(a) ==
    IF /\ current_session # EmptyDict
       /\ current_session.end_time = AbsentTime
       /\ current_session.topics_studied = a
    THEN {0} ELSE {}

\* C5: every topic entry is in exactly one session, counting the archived
\* sessions and the active one.
C5_EntryOwnedByOneSession ==
    \A a \in Addr :
        topics_heap[a] # <<>>
          => Cardinality(ArchivedOwners(a) \cup ActiveOwners(a)) = 1

\* C6: for every topic get_study_time_for_topic is the sum of the minutes
\* recorded for it, each call counted once, divided by 60.
C6_StudyTimeCountsEachCallOnce ==
    \A tp \in Topics :
        get_study_time_for_topic(tp) = [num |-> expected_minutes[tp], den |-> 60]

\* C7: a Tracker constructed right after save_memory holds the session_history,
\* performance_history and adaptive_parameters of the instance that saved,
\* field for field.
C7_SaveLoadRoundTrip ==
    [][(op = "save_memory" /\ op' = "__init__")
         => /\ HistoryValue' = HistoryValue
            /\ performance_history' = performance_history
            /\ adaptive_parameters' = adaptive_parameters]_vars

IsSortedByTimestamp(records) ==
    \A i, j \in DOMAIN records :
        i < j => records[i].timestamp.t <= records[j].timestamp.t

\* C8: for every topic get_performance_trend returns the topic's records
\* sorted non-decreasing by timestamp, as many as record_performance calls
\* were made for the topic.
C8_TrendSortedAndComplete ==
    \A tp \in Topics :
        LET trend == get_performance_trend(performance_history, tp)
        IN  /\ ~trend.raised
            /\ IsSortedByTimestamp(trend.value)
            /\ Len(trend.value) = perf_calls[tp]

\* the bound of its range nearest to x
Nearest(x, lo, hi) == IF x < lo THEN lo ELSE IF x > hi THEN hi ELSE x

ParametersInRange ==
    /\ adaptive_parameters.fatigue_factor >= 10
    /\ adaptive_parameters.fatigue_factor <= 200
    /\ adaptive_parameters.interest_factor >= 10
    /\ adaptive_parameters.interest_factor <= 200
    /\ adaptive_parameters.retention_rate >= 0
    /\ adaptive_parameters.retention_rate <= 100

\* C9: in every state fatigue_factor and interest_factor are in [0.1, 2.0] and
\* retention_rate is in [0.0, 1.0], and update_adaptive_parameters stores a
\* supplied value as the value of the range nearest to it.
C9_ParametersClamped ==
    /\ []ParametersInRange
    /\ [][\A args \in UpdateArgs :
            update_adaptive_parameters(args[1], args[2], args[3])
              => /\ args[1] # <<>> =>
                      adaptive_parameters'.fatigue_factor = Nearest(args[1][1], 10, 200)
                 /\ args[2] # <<>> =>
                      adaptive_parameters'.interest_factor = Nearest(args[2][1], 10, 200)
                 /\ args[3] # <<>> =>
                      adaptive_parameters'.retention_rate = Nearest(args[3][1], 0, 100)]_vars

\* a Tracker constructed from a persisted resource that holds clamped values
C9_Witness ==
    /\ op = "__init__"
    /\ file.exists
    /\ adaptive_parameters.fatigue_factor = 200
    /\ adaptive_parameters.interest_factor = 10
    /\ adaptive_parameters.retention_rate = 0

\* C10: estimate_topic_mastery returns a value in [0.0, 1.0] for every topic.
C10_MasteryInUnitInterval ==
    \A tp \in Topics :
        LET mastery == estimate_topic_mastery(performance_history, tp)
        IN  /\ ~mastery.raised
            /\ 0 <= mastery.value.num
            /\ mastery.value.num <= mastery.value.den

\* the weighted sum and the sum of weights of the scores, the i-th record of
\* the sequence weighing i
RECURSIVE ScoreTimesRank(_, _)
ScoreTimesRank(records, i) ==
    IF i > Len(records) THEN 0 ELSE records[i].score * i + ScoreTimesRank(records, i + 1)
RankTotal(records) == (Len(records) * (Len(records) + 1)) \div 2

\* v = min(1.0, n / d / 100), for d > 0
IsCappedPercent(v, n, d) ==
    IF n > d * 100 THEN v.num = v.den ELSE v.num * (d * 100) = n * v.den

\* C11: estimate_topic_mastery is 0.0 for a topic without records; otherwise
\* it is min(1.0, (sum of score_i * (i+1)) / (sum of (i+1)) / 100) over the
\* topic's records in ascending timestamp order (the order they were recorded
\* in), the oldest weighing 1.
C11_MasteryIsWeightedAverage ==
    \A tp \in Topics :
        LET records == performance_history[tp]
            mastery == estimate_topic_mastery(performance_history, tp)
        IN  /\ ~mastery.raised
            /\ IsSortedByTimestamp(records)
            /\ IF records = <<>>
               THEN mastery.value.num = 0
               ELSE IsCappedPercent(mastery.value, ScoreTimesRank(records, 1),
                                    RankTotal(records))

\* the formula of C11 wherever estimate_topic_mastery returns, and on the
\* scores 40, 60, 80 recorded in this order: 400/6/100
MasteryFormulaWhereReturned ==
    /\ \A tp \in Topics :
          LET records == performance_history[tp]
              mastery == estimate_topic_mastery(performance_history, tp)
          IN  ~mastery.raised =>
                IF records = <<>>
                THEN mastery.value.num = 0
                ELSE IsCappedPercent(mastery.value, ScoreTimesRank(records, 1),
                                     RankTotal(records))
    /\ LET example == [i \in 1..3 |-> [score |-> 20 + 20 * i, timestamp |-> Dt(i)]]
           mastery == estimate_topic_mastery([tp \in Topics |-> example], "AI")
       IN  ~mastery.raised /\ mastery.value.num * 600 = 400 * mastery.value.den

\* the ledger with the score of the last record of the topic replaced
WithLastScore(ph, tp, s) == [ph EXCEPT ![tp][Len(ph[tp])].score = s]

\* C12: with the earlier scores of a topic fixed, a last-recorded score that is
\* not smaller gives a mastery that is not smaller.
C12_MasteryMonotoneInLastScore ==
    \A tp \in Topics :
        performance_history[tp] # <<>> =>
            \A s1, s2 \in ScoreArgs :
                s1 <= s2 =>
                    LET m1 == estimate_topic_mastery(
                                 WithLastScore(performance_history, tp, s1), tp)
                        m2 == estimate_topic_mastery(
                                 WithLastScore(performance_history, tp, s2), tp)
                    IN  /\ ~m1.raised
                        /\ ~m2.raised
                        /\ m1.value.num * m2.value.den <= m2.value.num * m1.value.den

\* the order of C12 wherever estimate_topic_mastery returns
MasteryMonotoneWhereReturned ==
    \A tp \in Topics :
        performance_history[tp] # <<>> =>
            \A s1, s2 \in ScoreArgs :
                s1 <= s2 =>
                    LET m1 == estimate_topic_mastery(
                                 WithLastScore(performance_history, tp, s1), tp)
                        m2 == estimate_topic_mastery(
                                 WithLastScore(performance_history, tp, s2), tp)
                    IN  (~m1.raised /\ ~m2.raised) =>
                            m1.value.num * m2.value.den <= m2.value.num * m1.value.den


-----------------------------------------------------------------------------
(* get_recommended_break *)

\* study durations in hundredths of an hour: 0.0, 0.15, 0.26, 0.5, 1.0, 2.0
DurationArgs == {0, 15, 26, 50, 100, 200}
\* fatigue factors passed to update_adaptive_parameters, in hundredths
FatigueArgs == {5, 30, 100, 150, 500}

\* line 212: base_break = 5
base_break == 5

\* int(x) of a quotient n / d, d > 0: the fraction is dropped, towards zero
IntOf(n, d) == IF n >= 0 THEN n \div d ELSE -((-n) \div d)

\* round(x) of a quotient n / d, d > 0: nearest integer, a tie to the even one
RoundOf(n, d) ==
    LET q == n \div d
        r == n % d
    IN  IF 2 * r < d THEN q
        ELSE IF 2 * r > d THEN q + 1
        ELSE IF q % 2 = 0 THEN q ELSE q + 1

\* the break computed with the product rounded to the nearest minute
RecommendedBreak_Rounded(study_duration, fatigue_factor) ==
    base_break + RoundOf(study_duration * fatigue_factor, 1000)

\* line 216: int(base_break + (study_duration * 10 * fatigue_factor)); with both
\* arguments in hundredths the sum is (base_break * 1000 + sd * ff) / 1000
RecommendedBreak(study_duration, fatigue_factor) ==
    IntOf(base_break * 1000 + study_duration * fatigue_factor, 1000)

get_recommended_break(study_duration) ==
    /\ Called
    /\ answer' = [query |-> "get_recommended_break",
                  study_duration |-> study_duration,
                  fatigue_factor |-> adaptive_parameters.fatigue_factor,
                  value |-> RecommendedBreak(study_duration,
                                             adaptive_parameters.fatigue_factor)]
    /\ op' = "get_recommended_break"
    /\ ret' = None
    /\ saved' = FALSE
    /\ raised' = "none"
    /\ UNCHANGED <<now, current_session, session_history, performance_history,
                   adaptive_parameters, topics_heap, metrics_heap, file, fresh,
                   expected_minutes, perf_calls, store>>

NextBreak ==
    \/ \E f \in FatigueArgs : update_adaptive_parameters(<<f>>, <<>>, <<>>)
    \/ \E d \in DurationArgs : get_recommended_break(d)

SpecBreak == Init /\ [][NextBreak]_vars

\* the stored fatigue factors the calls of NextBreak can leave
StoredFatigue == {Clamp(fatigue_min, fatigue_max, f) : f \in FatigueArgs}
                    \cup {default_fatigue_factor}

\* C13 (as stated): get_recommended_break(d) returns 5 + round(d * 10 *
\* fatigue_factor) for every duration d and every stored fatigue_factor; d = 2.0
\* with fatigue_factor 1.0 gives 25; the result is non-decreasing in d and in
\* fatigue_factor.
C13_BreakIsFivePlusRounded ==
    answer.query = "get_recommended_break" =>
       /\ answer.value =
             5 + RoundOf(answer.study_duration * answer.fatigue_factor, 1000)
       /\ (answer.study_duration = 200 /\ answer.fatigue_factor = 100
             => answer.value = 25)
       /\ \A d \in DurationArgs, f \in StoredFatigue :
             (d >= answer.study_duration /\ f >= answer.fatigue_factor)
                => RecommendedBreak(d, f) >= answer.value

\* C13 (amended): for every duration d >= 0 and every stored fatigue_factor,
\* get_recommended_break(d) returns 5 + d * 10 * fatigue_factor with the
\* fraction dropped (the largest integer not above it, never the nearest); d = 2.0
\* with fatigue_factor 1.0 gives 25; the result is non-decreasing in d and in
\* fatigue_factor.
C13_BreakIsFivePlusTruncated ==
    answer.query = "get_recommended_break" =>
       LET exact == 5 * 1000 + answer.study_duration * answer.fatigue_factor
       IN  /\ answer.value * 1000 <= exact
           /\ exact < (answer.value + 1) * 1000
           /\ (answer.study_duration = 200 /\ answer.fatigue_factor = 100
                 => answer.value = 25)
           /\ \A d \in DurationArgs, f \in StoredFatigue :
                 (d >= answer.study_duration /\ f >= answer.fatigue_factor)
                    => RecommendedBreak(d, f) >= answer.value

\* 0.26 hours at fatigue 1.0: 5 + 2.6 is 7 minutes, where rounding gives 8
C13_Witness ==
    /\ answer.query = "get_recommended_break"
    /\ answer.study_duration = 26
    /\ answer.fatigue_factor = 100
    /\ answer.value = 7

-----------------------------------------------------------------------------
(* The persisted resource under damage and faults *)

\* Events outside the program are counted against the same budget as its calls.

\* Something outside the program replaces the content of the existing resource.
Damage(content) ==
    /\ Called
    /\ file.exists
    /\ store.content = "document"
    /\ store' = [store EXCEPT !.content = content]
    /\ op' = "environment" /\ ret' = None /\ saved' = FALSE /\ raised' = "none"
    /\ UNCHANGED <<now, current_session, session_history, performance_history,
                   adaptive_parameters, topics_heap, metrics_heap, file, fresh,
                   expected_minutes, perf_calls, answer>>

\* The resource or its directory becomes unusable, or usable again.
SetFault(fault) ==
    /\ Called
    /\ store.fault # fault
    /\ store' = [store EXCEPT !.fault = fault]
    /\ op' = "environment" /\ ret' = None /\ saved' = FALSE /\ raised' = "none"
    /\ UNCHANGED <<now, current_session, session_history, performance_history,
                   adaptive_parameters, topics_heap, metrics_heap, file, fresh,
                   expected_minutes, perf_calls, answer>>

NextStore ==
    \/ Next
    \/ \E content \in DamagedContents : Damage(content)
    \/ \E fault \in Faults : SetFault(fault)

SpecStore == Init /\ [][NextStore]_vars

\* what construction leaves when nothing could be loaded
DefaultState ==
    /\ session_history = <<>>
    /\ performance_history = EmptyLedger
    /\ adaptive_parameters = DefaultParameters

\* the resource gives nothing to load: missing, unreadable, not parseable, or
\* of the wrong shape
NothingToLoad ==
    \/ ~file.exists
    \/ store.fault = "open_fails"
    \/ store.content \in DamagedContents

\* C14: constructing a Tracker never raises, whatever the persisted resource
\* holds: when it is missing, unreadable, not parseable or of the wrong shape,
\* construction completes with session_history empty, performance_history
\* empty and adaptive_parameters {1.0, 1.0, 0.8}.
C14_ConstructNeverRaises ==
    op = "__init__" =>
       /\ raised = "none"
       /\ (NothingToLoad => DefaultState)

\* the cases of C14 in which the code does what is claimed: no resource, open()
\* fails, the text is not JSON, or the JSON object has no keys
ConstructDefaultsWhereCaught ==
    (op = "__init__" /\ raised = "none" /\ NothingToLoad) => DefaultState

SavingOps ==
    {"save_memory", "end_study_session", "record_performance",
     "update_adaptive_parameters"}

RECURSIVE LedgerSize(_, _)
LedgerSize(ph, tps) ==
    IF tps = {} THEN 0
    ELSE LET tp == CHOOSE x \in tps : TRUE
         IN  Len(ph[tp]) + LedgerSize(ph, tps \ {tp})

\* C15: a save failure is never fatal: when the resource or its containing path
\* cannot be created or written, save_memory, end_study_session,
\* record_performance and update_adaptive_parameters return without raising, and
\* the in-memory state holds the effect of the operation (the session archived,
\* the record appended, the parameter updated).
C15_SaveFailureNeverFatal ==
    [][ (op' \in SavingOps /\ store.fault # "none") =>
          /\ raised' = "none"
          /\ (op' = "end_study_session" =>
                /\ Len(session_history') = Len(session_history) + 1
                /\ session_history'[Len(session_history')] = current_session'
                /\ current_session'.end_time = Dt(now))
          /\ (op' = "record_performance" =>
                LedgerSize(performance_history', Topics)
                   = LedgerSize(performance_history, Topics) + 1)
          /\ (op' = "update_adaptive_parameters" =>
                \E args \in UpdateArgs :
                   adaptive_parameters' =
                      [fatigue_factor |->
                          Updated(adaptive_parameters.fatigue_factor, args[1],
                                  fatigue_min, fatigue_max),
                       interest_factor |->
                          Updated(adaptive_parameters.interest_factor, args[2],
                                  interest_min, interest_max),
                       retention_rate |->
                          Updated(adaptive_parameters.retention_rate, args[3],
                                  retention_min, retention_max)])
      ]_vars

\* the half of C15 the code keeps: a failing open() is caught, and in every
\* failure the in-memory effect is applied before the save is attempted
SaveFailureWhereCaught ==
    [][ (op' \in SavingOps /\ store.fault # "none") =>
          /\ (store.fault = "open_fails" => raised' = "none")
          /\ file' = file
          /\ (op' = "end_study_session" =>
                /\ Len(session_history') = Len(session_history) + 1
                /\ session_history'[Len(session_history')] = current_session'
                /\ current_session'.end_time = Dt(now))
          /\ (op' = "record_performance" =>
                LedgerSize(performance_history', Topics)
                   = LedgerSize(performance_history, Topics) + 1)
      ]_vars

IsPresentTime(ts) == ts.kind \in {"datetime", "str"}

\* C16: in every reachable state every element of session_history has end_time
\* present and a duration equal to end_time minus start_time in hours.
C16_ArchivedSessionsHaveEndTime ==
    \A i \in DOMAIN session_history :
       LET sess == session_history[i]
       IN  /\ IsPresentTime(sess.end_time)
           /\ IsPresentTime(sess.start_time)
           /\ sess.duration.den = 3600
           /\ sess.duration.num = sess.end_time.t - sess.start_time.t

\* a session started at 0 and ended at 1 is in the history, and so is one
\* read back from the file
C16_Witness ==
    /\ \E i \in DOMAIN session_history :
          /\ session_history[i].start_time = Dt(0)
          /\ session_history[i].end_time = Dt(1)
          /\ session_history[i].duration.num = 1
    /\ \E i \in DOMAIN session_history : session_history[i].end_time.kind = "str"

ScoresOf(records) == [i \in DOMAIN records |-> records[i].score]

\* the performance_metrics dict of the current session
SessionMetrics(cs, mh) == mh[cs.performance_metrics]

\* C17: every record_performance(topic, score) call appends one record with that
\* score to the ledger entry of the topic and one to the current session's
\* performance_metrics[topic]; a session starts with empty performance_metrics
\* and no other operation changes them, so performance_metrics[topic] is the
\* sequence of scores recorded for the topic since the session was started.
C17_RecordsMirroredIntoSession ==
    [][ LET before == SessionMetrics(current_session, metrics_heap)
            after == SessionMetrics(current_session', metrics_heap')
        IN  /\ op' = "record_performance" =>
                  \E tp \in Topics, s \in ScoreArgs :
                     /\ ScoresOf(performance_history'[tp])
                           = Append(ScoresOf(performance_history[tp]), s)
                     /\ ScoresOf(after[tp]) = Append(ScoresOf(before[tp]), s)
                     /\ \A tp2 \in Topics \ {tp} :
                           /\ performance_history'[tp2] = performance_history[tp2]
                           /\ after[tp2] = before[tp2]
            /\ op' \in {"start_study_session", "__init__"} =>
                  \A tp \in Topics : after[tp] = <<>>
            /\ op' \notin {"record_performance", "start_study_session", "__init__"} =>
                  after = before
      ]_vars

\* two scores recorded in a session that was started after an earlier record
C17_Witness ==
    /\ op = "record_performance"
    /\ ScoresOf(SessionMetrics(current_session, metrics_heap)["AI"]) = <<150, -50>>
    /\ Len(performance_history["AI"]) = 3
    /\ current_session.end_time = AbsentTime

\* a session that was started and not ended
IsActive(cs) == cs # EmptyDict /\ cs.end_time = AbsentTime

\* C18: start_study_session archives the current session exactly when it is an
\* active session holding at least one topic entry, appending it to
\* session_history once (a session already in session_history is not appended
\* again); otherwise session_history is unchanged; afterwards the active
\* session has empty topics_studied and empty performance_metrics.
C18_StartArchivesActiveSessionOnce ==
    [][ op' = "start_study_session" =>
          LET entries == topics_heap[current_session.topics_studied]
              n == Len(session_history)
          IN  /\ IF IsActive(current_session) /\ entries # <<>>
                 THEN /\ Len(session_history') = n + 1
                      /\ SubSeq(session_history', 1, n) = session_history
                      /\ session_history'[n + 1].start_time = current_session.start_time
                      /\ session_history'[n + 1].end_time = Dt(now)
                 ELSE session_history' = session_history
              /\ \A i \in 1..n :
                    Len(session_history') > n =>
                       session_history[i].topics_studied
                          # session_history'[n + 1].topics_studied
              /\ IsActive(current_session')
              /\ topics_heap'[current_session'.topics_studied] = <<>>
              /\ metrics_heap'[current_session'.performance_metrics] = EmptyMetrics
      ]_vars

\* what start_study_session does (lines 67-74): it archives whenever the
\* current session holds a topic entry, ended or not
StartArchivesWheneverEntries ==
    [][ op' = "start_study_session" =>
          LET entries == topics_heap[current_session.topics_studied]
              n == Len(session_history)
          IN  /\ IF entries # <<>>
                 THEN /\ Len(session_history') = n + 1
                      /\ SubSeq(session_history', 1, n) = session_history
                      /\ session_history'[n + 1].start_time = current_session.start_time
                      /\ session_history'[n + 1].end_time = Dt(now)
                 ELSE session_history' = session_history
              /\ IsActive(current_session')
              /\ topics_heap'[current_session'.topics_studied] = <<>>
              /\ metrics_heap'[current_session'.performance_metrics] = EmptyMetrics
      ]_vars

\* the same instant, as a datetime or as its text
SameInstant(a, b) ==
    IF IsPresentTime(a) \/ IsPresentTime(b)
    THEN IsPresentTime(a) /\ IsPresentTime(b) /\ a.t = b.t
    ELSE a = b

\* the same entries or records, instants compared as instants
SameTimed(xs, ys) ==
    /\ Len(xs) = Len(ys)
    /\ \A i \in DOMAIN xs :
          /\ SameInstant(xs[i].timestamp, ys[i].timestamp)
          /\ [xs[i] EXCEPT !.timestamp = AbsentTime]
                = [ys[i] EXCEPT !.timestamp = AbsentTime]

PersistedMatchesMemory ==
    /\ file.exists
    /\ Len(file.session_history) = Len(session_history)
    /\ \A i \in DOMAIN session_history :
          LET p == file.session_history[i]
              m == session_history[i]
          IN  /\ SameInstant(p.start_time, m.start_time)
              /\ SameInstant(p.end_time, m.end_time)
              /\ p.duration = m.duration
              /\ SameTimed(p.topics_studied, topics_heap[m.topics_studied])
              /\ \A tp \in Topics :
                    SameTimed(p.performance_metrics[tp],
                              metrics_heap[m.performance_metrics][tp])
    /\ \A tp \in Topics :
          SameTimed(file.performance_history[tp], performance_history[tp])
    /\ file.adaptive_parameters = adaptive_parameters

\* C19: with a writable store, right after end_study_session,
\* record_performance or update_adaptive_parameters returns, the persisted
\* payload is a snapshot of the tracker: its session_history,
\* performance_history and adaptive_parameters are the in-memory ones of that
\* moment (each instant in its text form).
C19_PersistedIsSnapshotAfterMutation ==
    (/\ op \in {"end_study_session", "record_performance",
                "update_adaptive_parameters"}
     /\ store.fault = "none")
       => PersistedMatchesMemory

\* a record saved when the history holds a session with a topic entry and the
\* fatigue factor was changed
C19_Witness ==
    /\ op = "record_performance"
    /\ store.fault = "none"
    /\ Len(session_history) >= 1
    /\ topics_heap[session_history[1].topics_studied] # <<>>
    /\ adaptive_parameters.fatigue_factor = fatigue_max
    /\ file.adaptive_parameters.fatigue_factor = fatigue_max

\* every entry or record of xs was made no later than the instant ts
MadeBy(xs, ts) == \A i \in DOMAIN xs : xs[i].timestamp.t <= ts.t

PersistedSessionsAreEnded ==
    \A i \in DOMAIN file.session_history :
       LET p == file.session_history[i]
       IN  /\ IsPresentTime(p.end_time)
           /\ MadeBy(p.topics_studied, p.end_time)
           /\ \A tp \in Topics : MadeBy(p.performance_metrics[tp], p.end_time)

\* C20: the persisted session_history contains only sessions for which
\* end_study_session has run, and no topic entry or session-scoped performance
\* record is in it unless it was recorded before the end of the session that
\* contains it; record_topic_study changes nothing in the persisted resource.
C20_OnlyEndedSessionsPersisted ==
    /\ []PersistedSessionsAreEnded
    /\ [][op' = "record_topic_study" => file' = file]_vars

\* the parts of C20 the code keeps: a persisted session has an end_time, and
\* record_topic_study does not write
PersistedSessionsHaveEndTime ==
    /\ [](\A i \in DOMAIN file.session_history :
             IsPresentTime(file.session_history[i].end_time))
    /\ [][op' = "record_topic_study" => file' = file]_vars

\* C21: update_adaptive_parameters changes only the parameters that were
\* supplied: a parameter whose argument is absent keeps its value, and
\* session_history, performance_history and the current session (with its
\* topic entries and performance metrics) are unchanged by the call.
C21_UpdateChangesOnlySupplied ==
    [][\A args \in UpdateArgs :
          update_adaptive_parameters(args[1], args[2], args[3])
            => /\ args[1] = <<>> =>
                    adaptive_parameters'.fatigue_factor
                       = adaptive_parameters.fatigue_factor
               /\ args[2] = <<>> =>
                    adaptive_parameters'.interest_factor
                       = adaptive_parameters.interest_factor
               /\ args[3] = <<>> =>
                    adaptive_parameters'.retention_rate
                       = adaptive_parameters.retention_rate
               /\ session_history' = session_history
               /\ performance_history' = performance_history
               /\ current_session' = current_session
               /\ topics_heap' = topics_heap
               /\ metrics_heap' = metrics_heap]_vars

\* fatigue_factor set after interest_factor was: interest_factor kept its
\* value, with a session archived and a record in the ledger
C21_Witness ==
    /\ op = "update_adaptive_parameters"
    /\ adaptive_parameters.fatigue_factor = fatigue_max
    /\ adaptive_parameters.interest_factor = interest_min
    /\ adaptive_parameters.retention_rate = default_retention_rate
    /\ Len(session_history) >= 1
    /\ \E tp \in Topics : performance_history[tp] # <<>>

\* the records of ys are those of xs, each as many times
SameRecords(xs, ys) ==
    /\ Len(xs) = Len(ys)
    /\ \A r \in {xs[i] : i \in DOMAIN xs} \cup {ys[i] : i \in DOMAIN ys} :
          Cardinality({i \in DOMAIN xs : xs[i] = r})
             = Cardinality({i \in DOMAIN ys : ys[i] = r})

\* C22: get_performance_trend, and with it estimate_topic_mastery, fails in no
\* reachable state, a Tracker constructed from a saved resource that holds
\* records of a topic and then given more records of the topic included: it
\* returns all the old and new records in ascending order of timestamp.
C22_TrendNeverFails ==
    \A tp \in Topics :
        LET trend == get_performance_trend(performance_history, tp)
            mastery == estimate_topic_mastery(performance_history, tp)
        IN  /\ ~trend.raised
            /\ ~mastery.raised
            /\ SameRecords(trend.value, performance_history[tp])
            /\ IsSortedByTimestamp(trend.value)

\* where every timestamp of the topic is of one kind (all made by this
\* instance, or all loaded) the trend is returned, complete and in order
TrendReturnsWhereOneKind ==
    \A tp \in Topics :
        LET trend == get_performance_trend(performance_history, tp)
        IN  ~ComparesAcrossKinds(performance_history[tp]) =>
               /\ ~trend.raised
               /\ SameRecords(trend.value, performance_history[tp])
               /\ IsSortedByTimestamp(trend.value)

-----------------------------------------------------------------------------
(* Two Trackers of one memory_file *)

\* the Tracker the caller's next calls go to
ThisInstance ==
    [constructed |-> TRUE,
     current_session |-> current_session,
     session_history |-> session_history,
     performance_history |-> performance_history,
     adaptive_parameters |-> adaptive_parameters,
     topics_heap |-> topics_heap,
     metrics_heap |-> metrics_heap,
     fresh |-> fresh,
     expected_minutes |-> expected_minutes]

\* The next calls go to the other Tracker. Each Tracker keeps its own
\* attributes; the file is the only thing they share.
Switch ==
    /\ other.constructed
    /\ calls < MaxCalls
    /\ calls' = calls + 1
    /\ other' = ThisInstance
    /\ current_session' = other.current_session
    /\ session_history' = other.session_history
    /\ performance_history' = other.performance_history
    /\ adaptive_parameters' = other.adaptive_parameters
    /\ topics_heap' = other.topics_heap
    /\ metrics_heap' = other.metrics_heap
    /\ fresh' = other.fresh
    /\ expected_minutes' = other.expected_minutes
    /\ op' = "switch" /\ ret' = None /\ saved' = FALSE /\ raised' = "none"
    /\ UNCHANGED <<now, file, perf_calls, store, answer>>

\* two Trackers constructed for the same memory_file before it exists
InitTwo == InitTracker /\ other = FreshInstance

NextTwo ==
    \/ Next
    \/ Switch

SpecTwo == InitTwo /\ [][NextTwo]_vars

\* how many records of xs have the score and the instant of r
CountOf(xs, r) ==
    Cardinality({i \in DOMAIN xs :
                    xs[i].score = r.score /\ SameInstant(xs[i].timestamp, r.timestamp)})

\* a record of the other Tracker is in the payload as many times as the
\* saving Tracker holds it: nothing of the other Tracker is merged in
NothingMerged ==
    \A tp \in Topics :
       \A i \in DOMAIN other.performance_history[tp] :
          LET r == other.performance_history[tp][i]
          IN  CountOf(file.performance_history[tp], r)
                 = CountOf(performance_history[tp], r)

\* C23: two Trackers of the same resource do not merge: each save overwrites the
\* resource with the saving Tracker's own snapshot, so the persisted payload is
\* the state of the Tracker that saved last (as it was when it saved, until
\* the next save), and a record the other Tracker wrote that the saver does
\* not hold is absent from it.
C23_LastSaverWins ==
    /\ [](saved => (PersistedMatchesMemory /\ NothingMerged))
    /\ [][~saved' => file' = file]_vars

\* the lost update: the other Tracker recorded and saved a record, and the
\* save of this Tracker, constructed before that, has written a payload
\* without it
C23_Witness ==
    /\ saved
    /\ op = "record_performance"
    /\ other.constructed
    /\ \E tp \in Topics :
          /\ performance_history[tp] # <<>>
          /\ \E i \in DOMAIN other.performance_history[tp] :
                LET r == other.performance_history[tp][i]
                IN  /\ r.timestamp.kind = "datetime"
                    /\ CountOf(file.performance_history[tp], r) = 0

=============================================================================
